---- MODULE Spec2Model ----
(***************************************************************************)
(* Model of codec/python/codec.py: LargePayloadCodec, the client-side      *)
(* codec that offloads large Temporal payloads to a remote blob store.     *)
(*                                                                         *)
(* Bytes are sequences of naturals, a metadata map is a function from      *)
(* strings to strings, a Payload is [metadata, data].  A call of a         *)
(* function of the codec evaluates to an outcome record                    *)
(*   [ok, err, payload, store, calls]                                      *)
(* ok = FALSE stands for a raised exception whose class is err; store is   *)
(* the remote store after the call and calls the log of the calls made.    *)
(***************************************************************************)
EXTENDS Integers, Sequences, FiniteSets, TLC

VARIABLES min_bytes, store, serverUp, op, input, orig, out, calls

vars == <<min_bytes, store, serverUp, op, input, orig, out, calls>>

(* ---------------- bounds of the model ---------------- *)
\* the explicit min_bytes a codec instance may be constructed with
Threshold == 10
\* longest batch handed to encode / decode
MaxBatch == 2
\* number of keys the remote store can hold
NumKeys == 2

(* ---------------- program constants ---------------- *)
MIN_LARGE_PAYLOAD_BYTES == 128000
REMOTE_CODEC_NAME == "temporal.io/remote-codec"

(* ---------------- bytes, metadata, payloads ---------------- *)
Rep(b, n) == [i \in 1..n |-> b]

EmptyMeta == [k \in {} |-> ""]

\* the metadata map of a protobuf-encoded RemotePayload, as to_payloads writes it
ProtoMeta == [encoding |-> "json/protobuf", messageType |-> "RemotePayload"]

\* the same with the marker entry, as a reference payload carries it
MarkedMeta == (REMOTE_CODEC_NAME :> "v2") @@ ProtoMeta

PlainMeta == [encoding |-> "binary/plain"]

\* metadata maps a Reference Record can name (index = its code in the JSON bytes)
MetaTable == <<EmptyMeta, PlainMeta, ProtoMeta, MarkedMeta>>

NoPayload == [metadata |-> EmptyMeta, data |-> <<>>]

Keys == 1..NumKeys

(* ---------------- library functions ---------------- *)
\* protobuf varint width of a length
varint(n) == IF n < 128 THEN 1 ELSE IF n < 16384 THEN 2 ELSE 3

\* a length-delimited protobuf field: tag, length, body
fieldSize(n) == 1 + varint(n) + n

RECURSIVE metaSize(_, _)
metaSize(m, ks) ==
    IF ks = {} THEN 0
    ELSE LET k == CHOOSE x \in ks : TRUE
             entry == fieldSize(Len(k)) + fieldSize(Len(m[k]))
         IN fieldSize(entry) + metaSize(m, ks \ {k})

\* Payload.ByteSize(): the serialized size of the whole message, the
\* metadata entries (field 1) and the data (field 2, omitted when empty)
ByteSize(payload) ==
    metaSize(payload.metadata, DOMAIN payload.metadata)
    + (IF Len(payload.data) = 0 THEN 0 ELSE fieldSize(Len(payload.data)))

SHA_PREFIX == 256

\* hashlib.sha256(b).hexdigest(): deterministic and collision free; each
\* byte is mapped by a position-dependent bijection of 0..255
hexdigest(b) == [i \in 1..Len(b) |-> (b[i] * 7 + i) % 256]

\* "sha256:" + hexdigest
Digest(b) == <<SHA_PREFIX>> \o hexdigest(b)

LBRACE == 123
RBRACE == 125

MetaIndex(m) == CHOOSE i \in 1..Len(MetaTable) : MetaTable[i] = m

\* JSON bytes of a RemotePayload message
jsonBytes(rec) ==
    <<LBRACE, MetaIndex(rec.metadata), rec.size, rec.key>> \o rec.digest \o <<RBRACE>>

jsonParses(b) ==
    /\ Len(b) >= 5
    /\ b[1] = LBRACE
    /\ b[Len(b)] = RBRACE
    /\ b[2] \in 1..Len(MetaTable)
    /\ b[5] = SHA_PREFIX

jsonParse(b) ==
    [metadata |-> MetaTable[b[2]], size |-> b[3], key |-> b[4],
     digest |-> SubSeq(b, 5, Len(b) - 1)]

NoRecord == [metadata |-> EmptyMeta, size |-> 0, key |-> 0, digest |-> <<>>]

\* DefaultPayloadConverter.to_payloads([RemotePayload(...)])[0]: the
\* json/protobuf encoding of the message; the metadata it writes are the
\* encoding and the message type, nothing else
to_payloads(rec) == [metadata |-> ProtoMeta, data |-> jsonBytes(rec)]

\* DefaultPayloadConverter.from_payloads([payload], [RemotePayload])[0]:
\* picks the converter by the "encoding" entry (KeyError when unknown),
\* resolves the message type and parses the bytes (RuntimeError); a
\* converter of another encoding yields a value without the record's fields
from_payloads(payload) ==
    LET md == payload.metadata IN
    IF "encoding" \notin DOMAIN md
    THEN [ok |-> FALSE, err |-> "KeyError", rec |-> NoRecord]
    ELSE IF md["encoding"] # "json/protobuf"
    THEN [ok |-> FALSE, err |-> "AttributeError", rec |-> NoRecord]
    ELSE IF "messageType" \notin DOMAIN md \/ ~jsonParses(payload.data)
    THEN [ok |-> FALSE, err |-> "RuntimeError", rec |-> NoRecord]
    ELSE IF md["messageType"] # "RemotePayload"
    THEN [ok |-> FALSE, err |-> "RuntimeError", rec |-> NoRecord]
    ELSE [ok |-> TRUE, err |-> "", rec |-> jsonParse(payload.data)]

\* json.dumps(obj): only dict, list, str, numbers, bool and None are
\* serializable; a protobuf map container is none of them, and a dict is
\* serializable only when its values are (bytes are not)
json_dumps(pytype, m) ==
    IF pytype = "dict" /\ DOMAIN m = {}
    THEN [ok |-> TRUE, err |-> "", text |-> <<LBRACE, RBRACE>>]
    ELSE [ok |-> FALSE, err |-> "TypeError", text |-> <<>>]

\* base64.b64encode(bytes): 4 characters for every 3 bytes
b64encode(b) == Rep(61, 4 * ((Len(b) + 2) \div 3))

\* base64.b64decode(s): s must be bytes-like or an ASCII string
\* (TypeError otherwise) of a length that is a multiple of 4
b64decode(pytype, s) ==
    IF pytype \notin {"bytes", "str"}
    THEN [ok |-> FALSE, err |-> "TypeError", bytes |-> <<>>]
    ELSE IF Len(s) % 4 # 0
    THEN [ok |-> FALSE, err |-> "binascii.Error", bytes |-> <<>>]
    ELSE [ok |-> TRUE, err |-> "", bytes |-> Rep(0, 3 * (Len(s) \div 4))]

(* ---------------- the remote store ---------------- *)
\* store[k] is <<>> when the store has no object under k, <<bytes>> otherwise
NoBlob == <<>>

EmptyStore == [k \in Keys |-> NoBlob]

FreeKeys(st) == {k \in Keys : st[k] = NoBlob}

HoldersOf(st, data) == {k \in Keys : st[k] = <<data>>}

Min(S) == CHOOSE x \in S : \A y \in S : x <= y

\* PUT v2/blobs/put on the server: content addressed, so the same bytes get
\* the key they already have; 500 when the server is failing, 507 when full
serverPut(st, up, data) ==
    IF ~up THEN [status |-> 500, key |-> 0, store |-> st]
    ELSE IF HoldersOf(st, data) # {}
    THEN [status |-> 200, key |-> Min(HoldersOf(st, data)), store |-> st]
    ELSE IF FreeKeys(st) = {}
    THEN [status |-> 507, key |-> 0, store |-> st]
    ELSE [status |-> 200, key |-> Min(FreeKeys(st)),
          store |-> [st EXCEPT ![Min(FreeKeys(st))] = <<data>>]]

\* a GET on the server: only v2/blobs/get serves reads (405 on the put
\* route); 500 when the server is failing, 404 for a key it does not have
serverGet(st, up, path, key) ==
    IF ~up THEN [status |-> 500, raw |-> <<>>]
    ELSE IF path # "v2/blobs/get" THEN [status |-> 405, raw |-> <<>>]
    ELSE IF key \notin Keys THEN [status |-> 404, raw |-> <<>>]
    ELSE IF st[key] = NoBlob THEN [status |-> 404, raw |-> <<>>]
    ELSE [status |-> 200, raw |-> st[key][1]]

(* ---------------- outcomes and the call log ---------------- *)
\* one entry of the log: a call of fn (or the exception err leaving the
\* function, fn = "raise"); for a request its path, key parameter and
\* expected-length header; arg is the payload the call is made for
Call(fn, path, key, hdr, err, arg) ==
    [fn |-> fn, path |-> path, key |-> key, hdr |-> hdr, err |-> err, arg |-> arg]

Return(payload, st, cs) ==
    [ok |-> TRUE, err |-> "", payload |-> payload, store |-> st, calls |-> cs]

Raise(err, st, cs, arg) ==
    [ok |-> FALSE, err |-> err, payload |-> NoPayload, store |-> st,
     calls |-> Append(cs, Call("raise", "", 0, <<>>, err, arg))]

\* requests.put(url, data=..., params=<dict>, headers=...): sent as is
requests_put(path, data, st, up, cs, arg) ==
    LET resp == serverPut(st, up, data) IN
    [sent |-> TRUE, status |-> resp.status, key |-> resp.key, store |-> resp.store,
     calls |-> Append(cs, Call("requests.put", path, resp.key, <<>>, "", arg))]

\* requests.get(url, params=..., headers=...): params must be a dict or a
\* list of pairs; a set of strings fails in the encoding of the query
\* (ValueError) and nothing is sent
requests_get(path, paramsType, key, hdr, st, up, cs, arg) ==
    IF paramsType # "dict"
    THEN [sent |-> FALSE, status |-> 0, raw |-> <<>>, calls |-> cs]
    ELSE LET resp == serverGet(st, up, path, key) IN
         [sent |-> TRUE, status |-> resp.status, raw |-> resp.raw,
          calls |-> Append(cs, Call("requests.get", path, key, hdr, "", arg))]

\* resp.raise_for_status(): one exception class, HTTPError, for every 4xx and 5xx
raise_for_status(status) == IF status >= 400 THEN "HTTPError" ELSE ""

\* hashlib.sha256(obj): obj must support the buffer protocol
sha256(pytype, b) ==
    IF pytype # "bytes"
    THEN [ok |-> FALSE, err |-> "TypeError", digest |-> <<>>]
    ELSE [ok |-> TRUE, err |-> "", digest |-> Digest(b)]

(* ---------------- LargePayloadCodec ---------------- *)
putLargePayload(payload, st, up, cs) ==
    LET cs1 == Append(cs, Call("putLargePayload", "", 0, <<>>, "", payload))
        digest == Digest(payload.data)
        \* payload.metadata is the protobuf map container of the message
        metadata_json == json_dumps("ScalarMap", payload.metadata)
    IN  IF ~metadata_json.ok THEN Raise(metadata_json.err, st, cs1, payload)
        ELSE
        LET b64_metadata == b64encode(metadata_json.text)
            resp == requests_put("v2/blobs/put", payload.data, st, up, cs1, payload)
        IN  IF raise_for_status(resp.status) # ""
            THEN Raise(raise_for_status(resp.status), resp.store, resp.calls, payload)
            ELSE Return(to_payloads([metadata |-> payload.metadata,
                                     size |-> Len(payload.data),
                                     digest |-> digest,
                                     key |-> resp.key]),
                        resp.store, resp.calls)

getLargePayload(payload, st, up, cs) ==
    LET cs1 == Append(Append(cs, Call("getLargePayload", "", 0, <<>>, "", payload)),
                      Call("from_payloads", "", 0, <<>>, "", payload))
        remote_payload == from_payloads(payload)
    IN  IF ~remote_payload.ok THEN Raise(remote_payload.err, st, cs1, payload)
        ELSE
        LET rec == remote_payload.rec
            \* request_params = {"key", remote_payload.key}: a set
            \* the header value: b64decode of the integer field size
            header == b64decode("int", rec.size)
        IN  IF ~header.ok THEN Raise(header.err, st, cs1, payload)
            ELSE
            LET resp == requests_get("v2/blobs/put", "set", rec.key, header.bytes,
                                     st, up, cs1, payload)
            IN  IF ~resp.sent THEN Raise("ValueError", st, resp.calls, payload)
                ELSE IF raise_for_status(resp.status) # ""
                THEN Raise(raise_for_status(resp.status), st, resp.calls, payload)
                ELSE
                \* resp.raw is the response's stream object, not its bytes
                LET h == sha256("HTTPResponse", resp.raw)
                IN  IF ~h.ok THEN Raise(h.err, st, resp.calls, payload)
                    ELSE IF h.digest # rec.digest
                    THEN Raise("Exception", st, resp.calls, payload)
                    ELSE Return([metadata |-> rec.metadata, data |-> resp.raw],
                                st, resp.calls)

\* faulty variants of the threshold test: the boundary taken as large, and
\* the length of the data alone compared
isLargeInclusive(payload, mb) == ByteSize(payload) >= mb

isLargeDataOnly(payload, mb) == Len(payload.data) > mb

\* payload.ByteSize() > self.min_bytes
isLarge(payload, mb) == ByteSize(payload) > mb

\* faulty variant of the marker test: the comparison inverted
hasMarkerInverted(payload) == REMOTE_CODEC_NAME \notin DOMAIN payload.metadata

\* payload.metadata.get(REMOTE_CODEC_NAME) != None
hasMarker(payload) == REMOTE_CODEC_NAME \in DOMAIN payload.metadata

\* faulty variant of the append: the new element put first
appendFront(result, x) == <<x>> \o result

\* result.append(x)
append(result, x) == Append(result, x)

\* faulty variant of the propagation: the exception caught, the payloads
\* done so far returned
propagateSwallow(acc, r) ==
    [ok |-> TRUE, err |-> "", result |-> acc.result, store |-> r.store, calls |-> r.calls]

\* an exception raised inside the loop leaves encode / decode: the call has
\* no result list
propagate(acc, r) ==
    [ok |-> FALSE, err |-> r.err, result |-> <<>>, store |-> r.store, calls |-> r.calls]

Begin(st, cs) == [ok |-> TRUE, err |-> "", result |-> <<>>, store |-> st, calls |-> cs]

RECURSIVE encodeLoop(_, _, _, _, _)
encodeLoop(payloads, i, mb, up, acc) ==
    IF i > Len(payloads) THEN acc
    ELSE IF isLarge(payloads[i], mb)
    THEN LET r == putLargePayload(payloads[i], acc.store, up, acc.calls) IN
         IF ~r.ok THEN propagate(acc, r)
         ELSE encodeLoop(payloads, i + 1, mb, up,
                         [acc EXCEPT !.result = append(@, r.payload),
                                     !.store = r.store, !.calls = r.calls])
    ELSE encodeLoop(payloads, i + 1, mb, up,
                    [acc EXCEPT !.result = append(@, payloads[i])])

encode(payloads, mb, st, up, cs) == encodeLoop(payloads, 1, mb, up, Begin(st, cs))

RECURSIVE decodeLoop(_, _, _, _)
decodeLoop(payloads, i, up, acc) ==
    IF i > Len(payloads) THEN acc
    ELSE IF hasMarker(payloads[i])
    THEN LET r == getLargePayload(payloads[i], acc.store, up, acc.calls) IN
         IF ~r.ok THEN propagate(acc, r)
         ELSE decodeLoop(payloads, i + 1, up,
                         [acc EXCEPT !.result = append(@, r.payload),
                                     !.store = r.store, !.calls = r.calls])
    ELSE decodeLoop(payloads, i + 1, up,
                    [acc EXCEPT !.result = append(@, payloads[i])])

decode(payloads, st, up, cs) == decodeLoop(payloads, 1, up, Begin(st, cs))

(* ---------------- inputs ---------------- *)
\* the bytes of an oversized application value and what a corruption of
\* the stored object leaves of them
BigData == Rep(65, 2 * Threshold)

AlteredData == [BigData EXCEPT ![1] = 66]

\* the Reference Record of BigData stored under key k, and the payload a
\* conforming encoder returns for it
RecordOf(k) ==
    [metadata |-> PlainMeta, size |-> Len(BigData), digest |-> Digest(BigData), key |-> k]

RefPayload(k) == [metadata |-> MarkedMeta, data |-> jsonBytes(RecordOf(k))]

\* serialized size exactly Threshold (tag, length and Threshold - 2 bytes)
AtThreshold == [metadata |-> EmptyMeta, data |-> Rep(65, Threshold - 2)]

\* data of exactly Threshold bytes, no metadata
LenThreshold == [metadata |-> EmptyMeta, data |-> Rep(65, Threshold)]

\* the oversized application payload
Big == [metadata |-> PlainMeta, data |-> BigData]

\* bytes that parse as a Reference Record, without the marker
RefNoMarker == to_payloads(RecordOf(1))

\* the marker on two bytes that are no Reference Record
MarkedGarbage == [metadata |-> MarkedMeta, data |-> <<1, 2>>]

Payloads == {AtThreshold, LenThreshold, Big, RefNoMarker, MarkedGarbage, RefPayload(1)}

Batches == UNION {[1..n -> Payloads] : n \in 0..MaxBatch}

Result(r) == [ok |-> r.ok, err |-> r.err, result |-> r.result]

NoResult == [ok |-> TRUE, err |-> "", result |-> <<>>]

(* ---------------- the state machine ---------------- *)
\* LargePayloadCodec(namespace, url) or LargePayloadCodec(namespace, url, min_bytes)
Init ==
    /\ min_bytes \in {MIN_LARGE_PAYLOAD_BYTES, Threshold}
    /\ store = EmptyStore
    /\ serverUp = TRUE
    /\ op = "none"
    /\ input = <<>>
    /\ orig = <<>>
    /\ out = NoResult
    /\ calls = <<>>

\* await codec.encode(payloads)
Encode(payloads) ==
    LET r == encode(payloads, min_bytes, store, serverUp, <<>>) IN
    /\ op' = "encode"
    /\ input' = payloads
    /\ orig' = payloads
    /\ out' = Result(r)
    /\ store' = r.store
    /\ calls' = r.calls
    /\ UNCHANGED <<min_bytes, serverUp>>

\* await codec.decode(payloads)
Decode(payloads) ==
    LET r == decode(payloads, store, serverUp, <<>>) IN
    /\ op' = "decode"
    /\ input' = payloads
    /\ orig' = <<>>
    /\ out' = Result(r)
    /\ store' = r.store
    /\ calls' = r.calls
    /\ UNCHANGED <<min_bytes, serverUp>>

\* await codec.decode(await codec.encode(payloads)): the decode of what the
\* last encode returned
DecodeEncoded ==
    /\ op = "encode"
    /\ out.ok
    /\ LET r == decode(out.result, store, serverUp, calls) IN
       /\ op' = "roundtrip"
       /\ input' = out.result
       /\ out' = Result(r)
       /\ store' = r.store
       /\ calls' = r.calls
    /\ UNCHANGED <<min_bytes, serverUp, orig>>

\* another client of the store offloads BigData into the empty store
StorePut(k) ==
    /\ serverUp
    /\ FreeKeys(store) = Keys
    /\ k = Min(Keys)
    /\ store' = [store EXCEPT ![k] = <<BigData>>]
    /\ UNCHANGED <<min_bytes, serverUp, op, input, orig, out, calls>>

\* a stored object is altered
Corrupt(k) ==
    /\ store[k] = <<BigData>>
    /\ store' = [store EXCEPT ![k] = <<AlteredData>>]
    /\ UNCHANGED <<min_bytes, serverUp, op, input, orig, out, calls>>

\* a stored object expires
Expire(k) ==
    /\ store[k] # NoBlob
    /\ store' = [store EXCEPT ![k] = NoBlob]
    /\ UNCHANGED <<min_bytes, serverUp, op, input, orig, out, calls>>

\* the server starts or stops failing
ServerFlip ==
    /\ serverUp' = ~serverUp
    /\ UNCHANGED <<min_bytes, store, op, input, orig, out, calls>>

Next ==
    \/ \E payloads \in Batches : Encode(payloads)
    \/ \E payloads \in Batches : Decode(payloads)
    \/ DecodeEncoded
    \/ \E k \in Keys : StorePut(k)
    \/ \E k \in Keys : Corrupt(k)
    \/ \E k \in Keys : Expire(k)
    \/ ServerFlip

Spec == Init /\ [][Next]_vars

(* ---------------- properties ---------------- *)
CallsOf(cs, fn) == Cardinality({i \in DOMAIN cs : cs[i].fn = fn})

Marked(p) == REMOTE_CODEC_NAME \in DOMAIN p.metadata

\* the record a payload's bytes deserialize to
RecordIn(p) == from_payloads(p).rec

\* p is a well-formed reference payload
WellFormedRef(p) == Marked(p) /\ from_payloads(p).ok

\* the store can take the bytes: it has them or has room for them
CanStore(st, data) == HoldersOf(st, data) # {} \/ FreeKeys(st) # {}

\* the exception the source raises for a digest mismatch (line 102)
IntegrityError == "Exception"

\* C1: offload round trip. For a payload P with more than threshold bytes
\* and a store that keeps what it is given, encode([P]) returns one payload
\* after exactly one store call, and the decode of it returns exactly P
\* (bytes and metadata) after exactly one fetch call.
OffloadRoundTrip ==
    [][ /\ ( /\ Encode(input')
             /\ Len(input') = 1
             /\ Len(input'[1].data) > min_bytes
             /\ serverUp
             /\ CanStore(store, input'[1].data) )
           => ( /\ out'.ok
                /\ Len(out'.result) = 1
                /\ CallsOf(calls', "requests.put") = 1 )
        /\ ( /\ DecodeEncoded
             /\ Len(orig) = 1
             /\ Len(orig[1].data) > min_bytes
             /\ serverUp
             /\ HoldersOf(store, orig[1].data) # {} )
           => ( /\ out'.ok
                /\ out'.result = orig
                /\ CallsOf(calls', "requests.put") = 1
                /\ CallsOf(calls', "requests.get") = 1 ) ]_vars

\* C2: integrity gate. The decode of a reference payload whose stored bytes
\* no longer hash to the recorded digest fails with the integrity error and
\* returns no payload; and no decode returns, for a reference payload, bytes
\* that do not hash to the recorded digest.
IntegrityGate ==
    [][ /\ ( /\ Decode(input')
             /\ Len(input') = 1
             /\ WellFormedRef(input'[1])
             /\ serverUp
             /\ RecordIn(input'[1]).key \in Keys
             /\ store[RecordIn(input'[1]).key] # NoBlob
             /\ Digest(store[RecordIn(input'[1]).key][1]) # RecordIn(input'[1]).digest )
           => ( /\ ~out'.ok
                /\ out'.err = IntegrityError
                /\ out'.result = <<>> )
        /\ ( (Decode(input') \/ DecodeEncoded) /\ out'.ok )
           => \A i \in DOMAIN out'.result :
                 WellFormedRef(input'[i])
                 => Digest(out'.result[i].data) = RecordIn(input'[i]).digest ]_vars

\* C3: the offloaded payload. For an input with more than threshold bytes
\* (store healthy) encode returns a payload that carries the marker entry
\* and whose content deserializes to the Reference Record of the input: its
\* metadata, the length of its bytes, "sha256:" + hex digest of its bytes,
\* and the key under which the store holds them.
OffloadedReference ==
    [][ ( /\ Encode(input')
          /\ Len(input') = 1
          /\ Len(input'[1].data) > min_bytes
          /\ serverUp
          /\ CanStore(store, input'[1].data) )
        => ( /\ out'.ok
             /\ Len(out'.result) = 1
             /\ Marked(out'.result[1])
             /\ from_payloads(out'.result[1]).ok
             /\ RecordIn(out'.result[1]).metadata = input'[1].metadata
             /\ RecordIn(out'.result[1]).size = Len(input'[1].data)
             /\ RecordIn(out'.result[1]).digest = Digest(input'[1].data)
             /\ RecordIn(out'.result[1]).key \in HoldersOf(store', input'[1].data) ) ]_vars

NoRequests == CallsOf(calls, "requests.put") = 0 /\ CallsOf(calls, "requests.get") = 0

\* C4 as stated: pass-through round trip. For every payload P with at most
\* threshold bytes, encode([P]) and then decode return [P] unchanged and no
\* store or fetch call is made.
PassThroughRoundTrip ==
    /\ (op = "encode" /\ Len(input) = 1 /\ Len(input[1].data) <= min_bytes)
       => (out.ok /\ out.result = input /\ NoRequests)
    /\ (op = "roundtrip" /\ Len(orig) = 1 /\ Len(orig[1].data) <= min_bytes)
       => (out.ok /\ out.result = orig /\ NoRequests)

\* C4 amended: for every payload P whose serialized size ByteSize(P)
\* (metadata and framing included) is at most the threshold and which does
\* not carry the marker entry, encode([P]) and then decode return [P]
\* unchanged and no store or fetch call is made.
PassThroughRoundTripAmended ==
    /\ (op = "encode" /\ Len(input) = 1 /\ ByteSize(input[1]) <= min_bytes)
       => (out.ok /\ out.result = input /\ NoRequests)
    /\ (op = "roundtrip" /\ Len(orig) = 1 /\ ByteSize(orig[1]) <= min_bytes
        /\ ~Marked(orig[1]))
       => (out.ok /\ out.result = orig /\ NoRequests)

PassThroughWitness ==
    /\ op = "roundtrip"
    /\ min_bytes = Threshold
    /\ orig = <<AtThreshold>>
    /\ out.ok
    /\ out.result = orig

\* what encode makes of input p: p itself, or a reference to it
EncodedFrom(p, q) ==
    IF ByteSize(p) <= min_bytes THEN q = p
    ELSE /\ from_payloads(q).ok
         /\ RecordIn(q).metadata = p.metadata
         /\ RecordIn(q).size = Len(p.data)
         /\ RecordIn(q).digest = Digest(p.data)

\* what decode makes of input p: p itself, or the verified original
DecodedFrom(p, q) ==
    IF ~Marked(p) THEN q = p
    ELSE /\ from_payloads(p).ok
         /\ q.metadata = RecordIn(p).metadata
         /\ Digest(q.data) = RecordIn(p).digest

\* C5: order and cardinality. A successful encode or decode of N payloads
\* returns N payloads, and the one at position i is the transformation of
\* the input at position i.
OrderAndCardinality ==
    (op # "none" /\ out.ok)
    => /\ Len(out.result) = Len(input)
       /\ \A i \in DOMAIN input :
            i \in DOMAIN out.result
            /\ IF op = "encode" THEN EncodedFrom(input[i], out.result[i])
               ELSE DecodedFrom(input[i], out.result[i])

OrderWitness ==
    /\ op = "decode"
    /\ out.ok
    /\ input = <<AtThreshold, Big>>
    /\ out.result = input

\* C6: marker discrimination. decode returns every payload without the
\* marker entry unchanged, and neither the deserialization of a Reference
\* Record nor a fetch is ever made for a payload without the marker.
MarkerDiscrimination ==
    /\ (op \in {"decode", "roundtrip"} /\ out.ok)
       => /\ Len(out.result) = Len(input)
          /\ \A i \in DOMAIN input :
               ~Marked(input[i]) => (i \in DOMAIN out.result /\ out.result[i] = input[i])
    /\ \A i \in DOMAIN calls :
         calls[i].fn \in {"getLargePayload", "from_payloads", "requests.get"}
         => Marked(calls[i].arg)

MarkerWitness ==
    /\ op = "decode"
    /\ out.ok
    /\ input = <<RefNoMarker>>
    /\ out.result = input
    /\ jsonParses(input[1].data)
    /\ calls = <<>>

\* C7 as stated: threshold dispatch. encode returns a payload unchanged with
\* no store call exactly when its bytes number at most the threshold, and
\* hands it to the offload otherwise.
ThresholdDispatch ==
    (op = "encode" /\ Len(input) = 1)
    => /\ (out.ok /\ out.result = input /\ CallsOf(calls, "requests.put") = 0)
          <=> (Len(input[1].data) <= min_bytes)
       /\ (CallsOf(calls, "putLargePayload") = 1) <=> (Len(input[1].data) > min_bytes)

\* C7 amended: encode returns a payload unchanged with no store call exactly
\* when its serialized size ByteSize (metadata and framing included) is at
\* most the threshold, and hands it to putLargePayload otherwise; only
\* payloads of a larger serialized size are ever handed to putLargePayload.
ThresholdDispatchAmended ==
    /\ (op = "encode" /\ Len(input) = 1)
       => /\ (out.ok /\ out.result = input /\ CallsOf(calls, "requests.put") = 0)
             <=> (ByteSize(input[1]) <= min_bytes)
          /\ (CallsOf(calls, "putLargePayload") = 1) <=> (ByteSize(input[1]) > min_bytes)
    /\ \A i \in DOMAIN calls :
         calls[i].fn = "putLargePayload" => ByteSize(calls[i].arg) > min_bytes

ThresholdWitness ==
    /\ op = "encode"
    /\ min_bytes = Threshold
    /\ input = <<LenThreshold>>
    /\ Len(input[1].data) = min_bytes
    /\ CallsOf(calls, "putLargePayload") = 1

Raises(cs) == {i \in DOMAIN cs : cs[i].fn = "raise"}

InputSet == {input[i] : i \in DOMAIN input}

\* C8: fail-fast batch. The first failure of a payload's transformation
\* ends the whole encode or decode with that error: the operation fails
\* exactly when a transformation raised, the raise is the last thing that
\* happened, its error is the operation's error, and no result sequence is
\* returned; a returned sequence has every payload, each one transformed.
FailFast ==
    (op # "none")
    => /\ out.ok <=> (Raises(calls) = {})
       /\ ~out.ok
          => /\ out.result = <<>>
             /\ Raises(calls) = {Len(calls)}
             /\ out.err = calls[Len(calls)].err
             /\ calls[Len(calls)].arg \in InputSet
       /\ out.ok
          => /\ Len(out.result) = Len(input)
             /\ \A i \in DOMAIN input :
                  i \in DOMAIN out.result
                  /\ IF op = "encode" THEN EncodedFrom(input[i], out.result[i])
                     ELSE DecodedFrom(input[i], out.result[i])

FailFastWitness ==
    /\ op = "decode"
    /\ input = <<MarkedGarbage, RefPayload(1)>>
    /\ ~out.ok
    /\ out.err = "RuntimeError"
    /\ out.result = <<>>
    /\ CallsOf(calls, "getLargePayload") = 1

\* C9: error taxonomy on fetch. The decode of a reference payload whose key
\* the store does not have fetches, fails and yields no payload, and its
\* error is another one than the error the same decode ends with when the
\* store answers with a failure status.
FetchErrorTaxonomy ==
    [][ ( /\ Decode(input')
          /\ Len(input') = 1
          /\ WellFormedRef(input'[1])
          /\ serverUp
          /\ \/ RecordIn(input'[1]).key \notin Keys
             \/ store[RecordIn(input'[1]).key] = NoBlob )
        => ( /\ ~out'.ok
             /\ out'.result = <<>>
             /\ CallsOf(calls', "requests.get") = 1
             /\ out'.err # decode(input', store, FALSE, <<>>).err ) ]_vars

\* C10: fetch addressing. For a reference payload decode issues exactly one
\* request, a GET of v2/blobs/get whose key parameter is the record's key
\* and whose expected-content-length header is the record's size.
FetchAddressing ==
    [][ ( /\ Decode(input')
          /\ Len(input') = 1
          /\ WellFormedRef(input'[1]) )
        => ( /\ CallsOf(calls', "requests.get") = 1
             /\ \A i \in DOMAIN calls' :
                  calls'[i].fn = "requests.get"
                  => /\ calls'[i].path = "v2/blobs/get"
                     /\ calls'[i].key = RecordIn(input'[1]).key
                     /\ calls'[i].hdr = <<RecordIn(input'[1]).size>> ) ]_vars

====
